---- MODULE Spec2Model ----
(***************************************************************************)
(* Model of openage/convert/main.py: the mount resolver                    *)
(* (mount_asset_dirs, mount_input), the invalidation engine                *)
(* (conversion_required) and their callers (convert_assets, main).         *)
(*                                                                         *)
(* Every Python function is an operator that maps its inputs to a record   *)
(* of its effects (return value, raised exception, the args namespace      *)
(* after the call, the mounts made on the Union, the log calls, the marker *)
(* files opened, the changelog query, the writable-path probes and the     *)
(* driver invocations, each in program order).  Every specification draws  *)
(* the inputs of one entry point in its initial states and has one action  *)
(* that runs the entry point to completion.                                *)
(***************************************************************************)
EXTENDS Integers, Sequences, FiniteSets, TLC

VARIABLES
    pc,            \* "start" before the entry point runs, "done" after
    args,          \* the argparse namespace (the conversion request)
    args_in,       \* args as they were when the entry point was entered
    srcdir,        \* the source tree: kind of every path in it
    detected,      \* what get_game_info(srcdir) yields / game_version
    asset_dir,     \* the output tree: the two markers and writability
    CHANGES,       \* changelog.CHANGES, the change table
    driver,        \* how driver.convert(args) behaves
    ret,           \* the value returned by the entry point
    exc,           \* the exception that left the entry point
    mounts,        \* the mount() calls made on the Union, in order
    log,           \* the warn/info/dbg/print calls, in order
    reads,         \* the marker files opened, in order
    query,         \* the calls of changelog.changes, in order
    changes,       \* the change set changelog.changes returned
    probes,        \* number of resolve_native_path_w() calls
    calls,         \* the functions of main.py entered, in order
    driver_calls   \* the args each driver.convert call received

vars == <<pc, args, args_in, srcdir, detected, asset_dir, CHANGES, driver,
          ret, exc, mounts, log, reads, query, changes, probes, calls,
          driver_calls>>

(***************************************************************************)
(* Bounds of the model.                                                    *)
(***************************************************************************)
MaxExpansions == 2     \* longest list of active expansions
MaxVersions == 2       \* longest change table

(***************************************************************************)
(* Exceptions.                                                             *)
(***************************************************************************)
NoExc == [type |-> "none", what |-> "none"]

\* the "return value" of a call that raised instead of returning
NoReturn == "<raised>"

MediaNotFound(path_to_media) == [type |-> "Exception", what |-> path_to_media]

NoWritablePath == [type |-> "OSError", what |-> "could not resolve a writable asset path"]

NullSubscript == [type |-> "TypeError", what |-> "game_version[0]"]

DriverFailure == [type |-> "Exception", what |-> "driver.convert"]

(***************************************************************************)
(* dataformat/version_detect (not part of the shown source): the Support   *)
(* classification and the editions and expansions with their media path    *)
(* tables.  A media path table is the ordered item list of the             *)
(* media_paths dict: <<[type, paths]>>, type being MediaType.value.        *)
(***************************************************************************)
Support == {"nope", "yes", "breaks"}

SourcePaths == {"data/graphics.drs", "data/SOUNDS.DRS", "data/empires2.dat", "resources"}

AOC ==
    [name |-> "AOC", support |-> "yes",
     media_paths |-> << [type |-> "datfile", paths |-> <<"data/empires2.dat">>],
                        [type |-> "graphics", paths |-> <<"data/graphics.drs", "resources">>] >>]

ROR ==
    [name |-> "ROR", support |-> "nope",
     media_paths |-> << [type |-> "sounds", paths |-> <<"data/SOUNDS.DRS">>] >>]

AOE1DE ==
    [name |-> "AOE1DE", support |-> "breaks",
     media_paths |-> << [type |-> "graphics", paths |-> <<"resources">>] >>]

\* the GameEdition enum, in definition order
GameEditionList == <<AOC, ROR, AOE1DE>>

GameEdition == { GameEditionList[i] : i \in 1..Len(GameEditionList) }

GameExpansion ==
    { [name |-> "AFRI_KING", support |-> "nope",
       media_paths |-> << [type |-> "graphics", paths |-> <<"resources">>],
                          [type |-> "sounds", paths |-> <<"data/SOUNDS.DRS">>] >>],
      [name |-> "SWGB_CC", support |-> "yes",
       media_paths |-> << [type |-> "sounds", paths |-> <<"data/SOUNDS.DRS", "data/empires2.dat">>] >>],
      [name |-> "TEST_X", support |-> "breaks",
       media_paths |-> << [type |-> "graphics", paths |-> <<"data/graphics.drs">>] >>] }

\* ordered lists of distinct active expansions
ExpansionLists ==
    { s \in UNION { [1..n -> GameExpansion] : n \in 0..MaxExpansions } :
        \A i, j \in 1..Len(s) : i # j => s[i] # s[j] }

\* the (edition, [expansion]) pairs get_game_info can return
GameVersions == { <<e, x>> : e \in GameEdition, x \in ExpansionLists }

\* the null result of get_game_info (falsy, like the pair it stands in for)
NoGameVersion == << >>

(***************************************************************************)
(* The source tree (util.fslike): what srcdir[path] resolves to.           *)
(***************************************************************************)
PathKinds == {"dir", "file", "missing"}

SrcTrees == [SourcePaths -> PathKinds]

is_dir(tree, path) == tree[path] = "dir"

is_file(tree, path) == tree[path] = "file"

\* Path.suffix: the extension of the last path component
suffix(path) ==
    CASE path = "data/graphics.drs" -> ".drs"
      [] path = "data/SOUNDS.DRS" -> ".DRS"
      [] path = "data/empires2.dat" -> ".dat"
      [] OTHER -> ""

\* str.lower on the suffixes that occur
lower(s) ==
    CASE s = ".DRS" -> ".drs"
      [] OTHER -> s

(***************************************************************************)
(* mount_asset_dirs.  A Union under construction is [mounts, exc]: the     *)
(* mounts made so far and the exception that is propagating, if any.       *)
(***************************************************************************)
RootMount == [target |-> "/", kind |-> "srcdir", path |-> "/"]

\* result[target].mount(pathobj) / mount_drs(filename, target)
Mount(result, target, kind, path) ==
    [result EXCEPT !.mounts = Append(@, [target |-> target, kind |-> kind, path |-> path])]

\* the body of the inner loop: one declared media path (lines 61-73, 79-91)
MountMediaPath_skipMissing(result, tree, media_type, media_path) ==
    IF result.exc # NoExc THEN result
    ELSE IF is_dir(tree, media_path) THEN Mount(result, media_type, "dir", media_path)
    ELSE IF is_file(tree, media_path)
         THEN IF lower(suffix(media_path)) = ".drs"
              THEN Mount(result, media_type, "drs", media_path)
              ELSE result
    ELSE result

MountMediaPath_mountAnyFile(result, tree, media_type, media_path) ==
    IF result.exc # NoExc THEN result
    ELSE IF is_dir(tree, media_path) THEN Mount(result, media_type, "dir", media_path)
    ELSE IF is_file(tree, media_path) THEN Mount(result, media_type, "drs", media_path)
    ELSE [result EXCEPT !.exc = MediaNotFound(media_path)]

MountMediaPath(result, tree, media_type, media_path) ==
    IF result.exc # NoExc THEN result
    ELSE IF is_dir(tree, media_path) THEN Mount(result, media_type, "dir", media_path)
    ELSE IF is_file(tree, media_path)
         THEN IF lower(suffix(media_path)) = ".drs"
              THEN Mount(result, media_type, "drs", media_path)
              ELSE result
    ELSE [result EXCEPT !.exc = MediaNotFound(media_path)]

\* for media_path in media_paths
RECURSIVE MountMediaPaths(_, _, _, _)
MountMediaPaths(result, tree, media_type, media_paths) ==
    IF media_paths = << >> THEN result
    ELSE MountMediaPaths(MountMediaPath(result, tree, media_type, Head(media_paths)),
                         tree, media_type, Tail(media_paths))

\* for media_type, media_paths in <edition or expansion>.media_paths.items()
RECURSIVE MountMediaTable(_, _, _)
MountMediaTable(result, tree, items) ==
    IF items = << >> THEN result
    ELSE MountMediaTable(MountMediaPaths(result, tree, Head(items).type, Head(items).paths),
                         tree, Tail(items))

\* for expansion in game_version[1]
RECURSIVE MountExpansions(_, _, _)
MountExpansions(result, tree, expansions) ==
    IF expansions = << >> THEN result
    ELSE MountExpansions(MountMediaTable(result, tree, Head(expansions).media_paths),
                         tree, Tail(expansions))

MountOrder_expansionsFirst(result, tree, game_version) ==
    MountMediaTable(MountExpansions(result, tree, game_version[2]),
                    tree, game_version[1].media_paths)

\* the two top-level loops, the edition's before the expansions'
MountOrder(result, tree, game_version) ==
    MountExpansions(MountMediaTable(result, tree, game_version[1].media_paths),
                    tree, game_version[2])

\* mount_asset_dirs(srcdir, game_version): [ret, exc, mounts]
MountAssetDirs(tree, game_version) ==
    LET result == MountOrder([mounts |-> <<RootMount>>, exc |-> NoExc], tree, game_version)
    IN  [ret |-> IF result.exc = NoExc THEN "result" ELSE NoReturn,
         exc |-> result.exc,
         mounts |-> result.mounts]

(***************************************************************************)
(* mount_input.  Log calls are <<level, message, argument>>.               *)
(***************************************************************************)
IsBroken(x) == x.support = "breaks"

IsSupported(x) == x.support = "yes"

\* one warn(" * %s", x) per element
Bullets(level, xs) == [i \in 1..Len(xs) |-> <<level, " * %s", xs[i].name>>]

\* mount_input(srcdir, prev_source_dir_path): [ret, exc, mounts, log, calls]
\* tree is the source tree, given or acquired; game_version is what
\* get_game_info(srcdir) returns for it.
MountInput(tree, game_version) ==
    LET log0 == IF game_version = NoGameVersion
                THEN << <<"warn", "No valid game version(s) could not be detected in %s", "srcdir">> >>
                ELSE << >>
    IN  IF game_version = NoGameVersion
        THEN \* game_version[0] on the null result
             [ret |-> NoReturn, exc |-> NullSubscript, mounts |-> << >>, log |-> log0,
              calls |-> <<"mount_input">>]
        ELSE
        LET broken_edition == IsBroken(game_version[1])
            no_support == broken_edition
            log1 == IF broken_edition
                    THEN << <<"warn", "You have installed an incompatible game edition:", "">>,
                            <<"warn", " * %s", game_version[1].name>> >>
                    ELSE << >>
            broken_expansions == SelectSeq(game_version[2], IsBroken)
            log2 == IF broken_expansions # << >>
                    THEN << <<"warn", "You have installed incompatible game expansions:", "">> >>
                         \o Bullets("warn", broken_expansions)
                    ELSE << >>
        IN  IF no_support
            THEN [ret |-> "(False, set())", exc |-> NoExc, mounts |-> << >>,
                  calls |-> <<"mount_input">>,
                  log |-> log0 \o log1 \o log2
                          \o << <<"warn", "You need at least one of:", "">> >>
                          \o Bullets("warn", SelectSeq(GameEditionList, IsSupported))]
            ELSE
            LET log3 == << <<"info", "Game edition detected:", "">>,
                           <<"info", " * %s", game_version[1].name>> >>
                        \o (IF game_version[2] # << >>
                            THEN << <<"info", "Expansions detected:", "">> >>
                                 \o Bullets("info", game_version[2])
                            ELSE << >>)
                output == MountAssetDirs(tree, game_version)
            IN  [ret |-> IF output.exc = NoExc THEN "(output, game_version)" ELSE NoReturn,
                 exc |-> output.exc,
                 mounts |-> output.mounts,
                 calls |-> <<"mount_input", "mount_asset_dirs">>,
                 log |-> log0 \o log1 \o log2 \o log3]

(***************************************************************************)
(* changelog (not part of the shown source): the component universe, the   *)
(* marker file names, the current game-spec token and the change-set       *)
(* query.  Entry i of the change table is the set of components that       *)
(* version i - 1 changed.                                                  *)
(***************************************************************************)
COMPONENTS == {"graphics", "metadata", "sounds"}

ASSET_VERSION_FILENAME == "asset_version"

GAMESPEC_VERSION_FILENAME == "gamespec_version"

GAMESPEC_VERSION == <<"a">>

\* the current asset version: that of the last entry of the change table
ASSET_VERSION(table) == Len(table) - 1

\* Python values of spec_version: None or a str
PyNone == [none |-> TRUE, str |-> << >>]

PyStr(chars) == [none |-> FALSE, str |-> chars]

\* changelog.changes(asset_version, spec_version): the components of every
\* version step above asset_version, plus metadata when the game-spec
\* marker is unset or differs from the current token.
ChangelogChanges(table, asset_version, spec_version) ==
    UNION { table[i] : i \in { j \in 1..Len(table) : j - 1 > asset_version } }
    \cup (IF spec_version # PyStr(GAMESPEC_VERSION) THEN {"metadata"} ELSE {})

(***************************************************************************)
(* Text of the marker files: a str is a sequence of characters.            *)
(***************************************************************************)
Whitespace == {" ", "\n", "\t"}

Digits == <<"0", "1", "2", "3", "4", "5", "6", "7", "8", "9">>

IsDigit(c) == \E d \in 1..Len(Digits) : Digits[d] = c

DigitValue(c) == (CHOOSE d \in 1..Len(Digits) : Digits[d] = c) - 1

\* str.strip()
RECURSIVE lstrip(_)
lstrip(chars) ==
    IF chars # << >> /\ Head(chars) \in Whitespace THEN lstrip(Tail(chars)) ELSE chars

RECURSIVE rstrip(_)
rstrip(chars) ==
    IF chars # << >> /\ chars[Len(chars)] \in Whitespace
    THEN rstrip(SubSeq(chars, 1, Len(chars) - 1))
    ELSE chars

strip(chars) == rstrip(lstrip(chars))

RECURSIVE Decimal(_)
Decimal(chars) ==
    IF chars = << >> THEN 0
    ELSE 10 * Decimal(SubSeq(chars, 1, Len(chars) - 1)) + DigitValue(chars[Len(chars)])

\* int(str): [ok, value]; not ok is ValueError
int(chars) ==
    LET signed == chars # << >> /\ Head(chars) \in {"+", "-"}
        digits == IF signed THEN Tail(chars) ELSE chars
        ok == digits # << >> /\ \A i \in 1..Len(digits) : IsDigit(digits[i])
    IN  [ok |-> ok,
         value |-> IF ~ok THEN 0
                   ELSE IF signed /\ Head(chars) = "-" THEN 0 - Decimal(digits)
                   ELSE Decimal(digits)]

(***************************************************************************)
(* conversion_required.  A marker file is [exists, content].               *)
(***************************************************************************)
ReadAssetVersion_zeroOnBadFormat(file) ==
    IF ~file.exists
    THEN [version |-> -1,
          log |-> << <<"info", "No converted assets have been found", "">> >>]
    ELSE LET asset_version == int(strip(file.content))
         IN  IF asset_version.ok
             THEN [version |-> asset_version.value, log |-> << >>]
             ELSE [version |-> 0,
                   log |-> << <<"info", "Converted asset version has improper format; expected integer number", "">> >>]

ReadAssetVersion_missingIsZero(file) ==
    IF ~file.exists
    THEN [version |-> 0,
          log |-> << <<"info", "No converted assets have been found", "">> >>]
    ELSE LET asset_version == int(strip(file.content))
         IN  IF asset_version.ok
             THEN [version |-> asset_version.value, log |-> << >>]
             ELSE [version |-> -1,
                   log |-> << <<"info", "Converted asset version has improper format; expected integer number", "">> >>]

\* "determine the version of assets": [version, log]
ReadAssetVersion(file) ==
    IF ~file.exists
    THEN [version |-> -1,
          log |-> << <<"info", "No converted assets have been found", "">> >>]
    ELSE LET asset_version == int(strip(file.content))
         IN  IF asset_version.ok
             THEN [version |-> asset_version.value, log |-> << >>]
             ELSE [version |-> -1,
                   log |-> << <<"info", "Converted asset version has improper format; expected integer number", "">> >>]

\* "determine the version of the gamespec format": [version, log]
ReadSpecVersion(file) ==
    IF ~file.exists
    THEN [version |-> PyNone,
          log |-> << <<"info", "Game specification version file not found.", "">> >>]
    ELSE [version |-> PyStr(strip(file.content)), log |-> << >>]

UpToDate_never(change_set) == FALSE

\* if not changes
UpToDate(change_set) == change_set = {}

Unwritable_never(target_path) == FALSE

\* if not target_path
Unwritable(target_path) == ~target_path

SkipUnchanged_inverted(a, change_set) ==
    [a EXCEPT !.no = [component \in COMPONENTS |->
                        IF component \in change_set THEN TRUE ELSE a.no[component]]]

\* for component in changelog.COMPONENTS: setattr(args, "no_<component>", True)
SkipUnchanged(a, change_set) ==
    [a EXCEPT !.no = [component \in COMPONENTS |->
                        IF component \notin change_set THEN TRUE ELSE a.no[component]]]

PickleCacheOff_forgotten(a, change_set) == a

\* if "metadata" in changes: args.no_pickle_cache = True
PickleCacheOff(a, change_set) ==
    IF "metadata" \in change_set THEN [a EXCEPT !.no_pickle_cache = TRUE] ELSE a

\* the effects of a call that did nothing, on namespace a
Quiet(a) ==
    [ret |-> NoReturn, exc |-> NoExc, args |-> a, mounts |-> << >>, log |-> << >>,
     reads |-> << >>, query |-> << >>, changes |-> {}, probes |-> 0,
     calls |-> << >>, driver_calls |-> << >>]

\* conversion_required(asset_dir, args), with changelog.CHANGES = table
ConversionRequired(dir, a, table) ==
    LET asset == ReadAssetVersion(dir.asset_file)
        spec == ReadSpecVersion(dir.spec_file)
        asset_version == asset.version
        spec_version == spec.version
        change_set == ChangelogChanges(table, asset_version, spec_version)
        read == [Quiet(a) EXCEPT
                    !.calls = <<"conversion_required">>,
                    !.reads = <<ASSET_VERSION_FILENAME, GAMESPEC_VERSION_FILENAME>>,
                    !.query = << [asset_version |-> asset_version,
                                  spec_version |-> spec_version] >>,
                    !.changes = change_set,
                    !.log = asset.log \o spec.log]
    IN  IF UpToDate(change_set)
        THEN [read EXCEPT !.ret = "False",
                          !.log = @ \o << <<"dbg", "Converted assets are up to date", "">> >>]
        ELSE
        LET announced ==
                [read EXCEPT
                    !.log = @ \o (IF asset_version >= 0 /\ asset_version # ASSET_VERSION(table)
                                  THEN << <<"info", "Found converted assets with version %d, but need version %d", "">> >>
                                  ELSE << >>)
                              \o << <<"info", "Converting %s", "">> >>,
                    !.probes = @ + 1]
        IN  IF Unwritable(dir.writable)
            THEN [announced EXCEPT !.exc = NoWritablePath]
            ELSE [announced EXCEPT
                    !.ret = "True",
                    !.log = @ \o << <<"info", "Will save to '%s'", "">> >>,
                    !.args = PickleCacheOff(SkipUnchanged(a, change_set), change_set)]

(***************************************************************************)
(* convert_assets.  driver.convert(args) is external: it either runs to    *)
(* completion or raises.  Its progress events only feed the progress       *)
(* display and are not modelled.                                           *)
(***************************************************************************)
DriverBehaviours == {"completes", "raises"}

ConvertAssets_unwrappedSource(a, tree, game_version, drv) ==
    LET input == MountInput(tree, game_version)
        mounted == [Quiet(a) EXCEPT !.mounts = input.mounts, !.log = input.log,
                                    !.calls = <<"convert_assets">> \o input.calls]
    IN  IF input.exc # NoExc
        THEN [mounted EXCEPT !.exc = input.exc]
        ELSE IF input.ret = "(False, set())"
        THEN [mounted EXCEPT !.ret = "None"]
        ELSE
        LET wrapped == [a EXCEPT !.game_version = game_version,
                                 !.srcdir = "data_dir",
                                 !.targetdir = "AccessSynchronizer(targetdir).root",
                                 !.flag = TRUE]
            called == [mounted EXCEPT !.args = wrapped, !.driver_calls = <<wrapped>>]
        IN  IF drv = "raises"
            THEN [called EXCEPT !.exc = DriverFailure]
            ELSE [called EXCEPT !.ret = "data_dir.resolve_native_path()",
                                !.args = [wrapped EXCEPT !.srcdir = "unset",
                                                         !.targetdir = "unset"]]

\* convert_assets(assets, args, srcdir, prev_source_dir_path)
ConvertAssets(a, tree, game_version, drv) ==
    LET input == MountInput(tree, game_version)
        mounted == [Quiet(a) EXCEPT !.mounts = input.mounts, !.log = input.log,
                                    !.calls = <<"convert_assets">> \o input.calls]
    IN  IF input.exc # NoExc
        THEN [mounted EXCEPT !.exc = input.exc]
        ELSE IF input.ret = "(False, set())"
        THEN \* if not data_dir: return None
             [mounted EXCEPT !.ret = "None"]
        ELSE
        LET wrapped == [a EXCEPT !.game_version = game_version,
                                 !.srcdir = "AccessSynchronizer(data_dir).root",
                                 !.targetdir = "AccessSynchronizer(targetdir).root",
                                 !.flag = TRUE]
            called == [mounted EXCEPT !.args = wrapped, !.driver_calls = <<wrapped>>]
        IN  IF drv = "raises"
            THEN [called EXCEPT !.exc = DriverFailure]
            ELSE \* clean args
                 [called EXCEPT !.ret = "data_dir.resolve_native_path()",
                                !.args = [wrapped EXCEPT !.srcdir = "unset",
                                                         !.targetdir = "unset"]]

(***************************************************************************)
(* interactive_browser and main.                                           *)
(***************************************************************************)
\* interactive_browser(srcdir); the interactive prompt itself is external
InteractiveBrowser(a, tree, game_version) ==
    LET input == MountInput(tree, game_version)
        launched == [Quiet(a) EXCEPT
                        !.mounts = input.mounts,
                        !.calls = <<"interactive_browser">> \o input.calls,
                        !.log = << <<"info", "launching interactive data browser...", "">> >>
                                \o input.log]
    IN  IF input.exc # NoExc
        THEN [launched EXCEPT !.exc = input.exc]
        ELSE IF input.ret = "(False, set())"
        THEN [launched EXCEPT
                !.ret = "None",
                !.log = @ \o << <<"warn", "cannot launch browser as no valid input assets were found.", "">> >>]
        ELSE [launched EXCEPT !.ret = "None"]

ChecksMarkers_always(a) == TRUE

\* args.force or conversion_required(outdir, args): the right operand is
\* evaluated only when the left one is false
ChecksMarkers(a) == ~a.force

\* what conversion_required leaves when it is not called
NotChecked(a) == Quiet(a)

\* main(args, error)
Main(a, dir, table, tree, game_version, drv) ==
    IF a.interactive
    THEN LET browsed == InteractiveBrowser(a, tree, game_version)
             entered == [browsed EXCEPT !.calls = <<"main">> \o @]
         IN  IF browsed.exc # NoExc THEN entered ELSE [entered EXCEPT !.ret = "0"]
    ELSE
    LET checked == IF ChecksMarkers(a) THEN ConversionRequired(dir, a, table)
                   ELSE NotChecked(a)
        required == [checked EXCEPT !.calls = <<"main">> \o @]
    IN  IF required.exc # NoExc THEN required
        ELSE IF a.force \/ required.ret = "True"
        THEN LET converted == ConvertAssets(required.args, tree, game_version, drv)
                 both == [converted EXCEPT !.log = required.log \o @,
                                           !.calls = required.calls \o @,
                                           !.reads = required.reads,
                                           !.query = required.query,
                                           !.changes = required.changes,
                                           !.probes = required.probes]
             IN  IF converted.exc # NoExc THEN both
                 ELSE IF converted.ret = "None" THEN [both EXCEPT !.ret = "1"]
                 ELSE [both EXCEPT !.ret = "None"]
        ELSE [required EXCEPT
                !.ret = "None",
                !.log = @ \o << <<"print", "assets are up to date; no conversion is required.", "">>,
                                <<"print", "override with --force.", "">> >>]

(***************************************************************************)
(* The inputs of the entry points.                                         *)
(***************************************************************************)
\* the namespace init_subparser's arguments produce
Namespaces ==
    [force : BOOLEAN, interactive : BOOLEAN,
     no : [COMPONENTS -> BOOLEAN], no_pickle_cache : BOOLEAN,
     game_version : {NoGameVersion}, srcdir : {"unset"}, targetdir : {"unset"},
     flag : {FALSE}]

\* a namespace with every option at its default
DefaultNamespace ==
    [force |-> FALSE, interactive |-> FALSE,
     no |-> [component \in COMPONENTS |-> FALSE], no_pickle_cache |-> FALSE,
     game_version |-> NoGameVersion, srcdir |-> "unset", targetdir |-> "unset",
     flag |-> FALSE]

NoFile == [exists |-> FALSE, content |-> << >>]

File(content) == [exists |-> TRUE, content |-> content]

AssetMarkers ==
    { NoFile, File(<<"0">>), File(<<"1", "\n">>), File(<<" ", "2">>), File(<<"x">>),
      File(<< >>), File(<<"-", "2">>), File(<<"1", "x">>) }

SpecMarkers == { NoFile, File(<<"a", "\n">>), File(<<"b">>) }

AssetDirs == [asset_file : AssetMarkers, spec_file : SpecMarkers, writable : BOOLEAN]

\* change tables of at most MaxVersions versions, each changing something
ChangeTables ==
    UNION { [1..n -> (SUBSET COMPONENTS) \ {{}}] : n \in 0..MaxVersions }

DefaultTree == [path \in SourcePaths |-> "dir"]

DefaultAssetDir == [asset_file |-> NoFile, spec_file |-> NoFile, writable |-> TRUE]

\* nothing has run yet
Fresh ==
    /\ pc = "start"
    /\ args_in = args
    /\ ret = NoReturn
    /\ exc = NoExc
    /\ mounts = << >>
    /\ log = << >>
    /\ reads = << >>
    /\ query = << >>
    /\ changes = {}
    /\ probes = 0
    /\ calls = << >>
    /\ driver_calls = << >>

\* the entry point ran with effects e
Finish(e) ==
    /\ pc = "start"
    /\ pc' = "done"
    /\ args' = e.args
    /\ ret' = e.ret
    /\ exc' = e.exc
    /\ mounts' = e.mounts
    /\ log' = e.log
    /\ reads' = e.reads
    /\ query' = e.query
    /\ changes' = e.changes
    /\ probes' = e.probes
    /\ calls' = e.calls
    /\ driver_calls' = e.driver_calls
    /\ UNCHANGED <<args_in, srcdir, detected, asset_dir, CHANGES, driver>>

(***************************************************************************)
(* SpecMount: mount_asset_dirs on every source tree and game version.      *)
(***************************************************************************)
InitMount ==
    /\ args = DefaultNamespace
    /\ srcdir \in SrcTrees
    /\ detected \in GameVersions
    /\ asset_dir = DefaultAssetDir
    /\ CHANGES = << >>
    /\ driver = "completes"
    /\ Fresh

CallMountAssetDirs ==
    LET output == MountAssetDirs(srcdir, detected)
    IN  Finish([Quiet(args) EXCEPT !.ret = output.ret, !.exc = output.exc,
                                   !.mounts = output.mounts,
                                   !.calls = <<"mount_asset_dirs">>])

SpecMount == InitMount /\ [][CallMountAssetDirs]_vars

(***************************************************************************)
(* SpecInput: mount_input on every source tree and detection result.       *)
(***************************************************************************)
InitInput ==
    /\ args = DefaultNamespace
    /\ srcdir \in SrcTrees
    /\ detected \in GameVersions \cup {NoGameVersion}
    /\ asset_dir = DefaultAssetDir
    /\ CHANGES = << >>
    /\ driver = "completes"
    /\ Fresh

CallMountInput ==
    LET output == MountInput(srcdir, detected)
    IN  Finish([Quiet(args) EXCEPT !.ret = output.ret, !.exc = output.exc,
                                   !.mounts = output.mounts, !.log = output.log,
                                   !.calls = output.calls])

SpecInput == InitInput /\ [][CallMountInput]_vars

(***************************************************************************)
(* SpecRequired: conversion_required on every namespace, output tree and   *)
(* change table.                                                           *)
(***************************************************************************)
InitRequired ==
    /\ args \in { a \in Namespaces : ~a.force /\ ~a.interactive }
    /\ srcdir = DefaultTree
    /\ detected = NoGameVersion
    /\ asset_dir \in AssetDirs
    /\ CHANGES \in ChangeTables
    /\ driver = "completes"
    /\ Fresh

CallConversionRequired == Finish(ConversionRequired(asset_dir, args, CHANGES))

SpecRequired == InitRequired /\ [][CallConversionRequired]_vars

(***************************************************************************)
(* SpecConvert: convert_assets on every source tree, detection result and  *)
(* driver behaviour, with any skip flags already in the namespace.         *)
(***************************************************************************)
InitConvert ==
    /\ args \in { a \in Namespaces : ~a.force /\ ~a.interactive }
    /\ srcdir \in SrcTrees
    /\ detected \in GameVersions \cup {NoGameVersion}
    /\ asset_dir = DefaultAssetDir
    /\ CHANGES = << >>
    /\ driver \in DriverBehaviours
    /\ Fresh

CallConvertAssets == Finish(ConvertAssets(args, srcdir, detected, driver))

SpecConvert == InitConvert /\ [][CallConvertAssets]_vars

(***************************************************************************)
(* Spec: a run of main, on every command line and on a sample of the       *)
(* environments the other specifications cover in full: trees whose paths  *)
(* are all of one kind, one game version per support class and shape, the  *)
(* markers absent, current, stale or malformed, and change tables whose    *)
(* first version changes everything.                                       *)
(***************************************************************************)
MainTrees == { [path \in SourcePaths |-> kind] : kind \in PathKinds }

MainGameVersions ==
    { NoGameVersion, <<AOC, << >> >>, <<AOE1DE, << >> >> }
    \cup { <<ROR, x>> : x \in { y \in ExpansionLists : Len(y) = 1 /\ IsSupported(y[1]) } }

MainAssetDirs ==
    [asset_file : {NoFile, File(<<"0">>), File(<<"x">>)},
     spec_file : {NoFile, File(<<"a", "\n">>)},
     writable : BOOLEAN]

MainChangeTables ==
    { t \in ChangeTables :
        /\ Len(t) >= 1 => t[1] = COMPONENTS
        /\ \A i \in 2..Len(t) : t[i] = {"graphics"} }

Init ==
    /\ args \in Namespaces
    /\ srcdir \in MainTrees
    /\ detected \in MainGameVersions
    /\ asset_dir \in MainAssetDirs
    /\ CHANGES \in MainChangeTables
    /\ driver \in DriverBehaviours
    /\ Fresh

CallMain == Finish(Main(args, asset_dir, CHANGES, srcdir, detected, driver))

Next == CallMain

Spec == Init /\ [][Next]_vars

(***************************************************************************)
(* Properties of mount_asset_dirs (SpecMount).  The declarations are       *)
(* flattened here by index, independently of the loops above.              *)
(***************************************************************************)
RECURSIVE Concat(_)
Concat(seqs) == IF seqs = << >> THEN << >> ELSE Head(seqs) \o Concat(Tail(seqs))

\* the declared entries of one media path table, in declaration order
TableEntries(items) ==
    Concat([i \in 1..Len(items) |->
              [j \in 1..Len(items[i].paths) |->
                 [type |-> items[i].type, path |-> items[i].paths[j]]]])

EditionEntries == TableEntries(detected[1].media_paths)

ExpansionEntries ==
    Concat([k \in 1..Len(detected[2]) |-> TableEntries(detected[2][k].media_paths)])

\* every declared entry in processing order
DeclaredEntries == EditionEntries \o ExpansionEntries

IsMissing(entry) == srcdir[entry.path] = "missing"

IsContainerName(path) == path \in {"data/graphics.drs", "data/SOUNDS.DRS"}

IsMounted(entry) ==
    \/ srcdir[entry.path] = "dir"
    \/ srcdir[entry.path] = "file" /\ IsContainerName(entry.path)

IsUnrecognizedFile(entry) ==
    srcdir[entry.path] = "file" /\ ~IsContainerName(entry.path)

\* the mounts a run of entries gives when none of them is missing
MountsOf(entries) ==
    LET kept == SelectSeq(entries, IsMounted)
    IN  [i \in 1..Len(kept) |->
           [target |-> kept[i].type,
            kind |-> IF srcdir[kept[i].path] = "dir" THEN "dir" ELSE "drs",
            path |-> kept[i].path]]

MissingAt == { i \in 1..Len(DeclaredEntries) : IsMissing(DeclaredEntries[i]) }

FirstMissing == CHOOSE i \in MissingAt : \A j \in MissingAt : i <= j

IsPrefix(s, t) == Len(s) <= Len(t) /\ s = SubSeq(t, 1, Len(s))

\* C1: when some declared media path is missing from the source tree,
\* mount_asset_dirs raises an exception naming the first such path in
\* processing order, has mounted exactly the entries before it (nothing
\* after it), and returns no tree.
C1_FirstMissingAborts ==
    (pc = "done" /\ MissingAt # {}) =>
        /\ exc = MediaNotFound(DeclaredEntries[FirstMissing].path)
        /\ ret = NoReturn
        /\ mounts = <<RootMount>> \o MountsOf(SubSeq(DeclaredEntries, 1, FirstMissing - 1))

\* C1 witness: a missing entry with a mounted entry before it and a
\* mountable entry after it.
C1_Witness ==
    /\ pc = "done"
    /\ MissingAt # {}
    /\ Len(mounts) > 1
    /\ \E i \in 1..Len(DeclaredEntries) : i > FirstMissing /\ IsMounted(DeclaredEntries[i])

\* C2: the mounts are, in order: the source tree at the root, the
\* edition's paths in declaration order, then each expansion's paths in
\* activation order, each at the target of its own media category; a run
\* that raises has made a prefix of that sequence.
C2_MountOrder ==
    pc = "done" =>
        LET full == <<RootMount>> \o MountsOf(EditionEntries) \o MountsOf(ExpansionEntries)
        IN  /\ mounts[1] = RootMount
            /\ IsPrefix(mounts, full)
            /\ exc = NoExc => mounts = full

\* C2 witness: a completed run that mounted edition paths and the paths of
\* two expansions.
C2_Witness ==
    /\ pc = "done"
    /\ exc = NoExc
    /\ Len(detected[2]) = 2
    /\ MountsOf(EditionEntries) # << >>
    /\ MountsOf(TableEntries(detected[2][1].media_paths)) # << >>
    /\ MountsOf(TableEntries(detected[2][2].media_paths)) # << >>
    /\ MountsOf(EditionEntries) # MountsOf(ExpansionEntries)

\* a sequence without its j-th element
Without(s, j) == SubSeq(s, 1, j - 1) \o SubSeq(s, j + 1, Len(s))

\* the positions <<owner, item, path>> of the declared entries; owner 0 is
\* the edition, owner k the k-th expansion
OwnerTable(k) == IF k = 0 THEN detected[1].media_paths ELSE detected[2][k].media_paths

EntryPositions ==
    UNION { UNION { { <<k, i, j>> : j \in 1..Len(OwnerTable(k)[i].paths) } :
                    i \in 1..Len(OwnerTable(k)) } :
            k \in 0..Len(detected[2]) }

EntryAt(pos) ==
    [type |-> OwnerTable(pos[1])[pos[2]].type,
     path |-> OwnerTable(pos[1])[pos[2]].paths[pos[3]]]

\* the game version with the entry at pos taken out of its path list
Undeclared(pos) ==
    LET strike(x) == [x EXCEPT !.media_paths[pos[2]].paths = Without(@, pos[3])]
    IN  IF pos[1] = 0
        THEN <<strike(detected[1]), detected[2]>>
        ELSE <<detected[1], [detected[2] EXCEPT ![pos[1]] = strike(@)]>>

\* C10: a declared path that is a file of unrecognized type is skipped
\* silently: the run mounts, raises and returns exactly what it does with
\* that entry removed from the declarations, and logs nothing.
C10_UnrecognizedFileSkipped ==
    pc = "done" =>
        /\ log = << >>
        /\ \A pos \in EntryPositions :
              IsUnrecognizedFile(EntryAt(pos)) =>
                 LET other == MountAssetDirs(srcdir, Undeclared(pos))
                 IN  /\ other.mounts = mounts
                     /\ other.exc = exc
                     /\ other.ret = ret

\* C10 witness: an unrecognized file is declared first and the run goes on
\* to mount the entries after it.
C10_Witness ==
    /\ pc = "done"
    /\ IsUnrecognizedFile(DeclaredEntries[1])
    /\ exc = NoExc
    /\ Len(mounts) >= 3

(***************************************************************************)
(* Properties of conversion_required (SpecRequired).                       *)
(***************************************************************************)
\* the marker contents of AssetMarkers that are not integer literals
NonIntegerTexts == { <<"x">>, << >>, <<"1", "x">> }

HasNonIntegerAssetMarker ==
    asset_dir.asset_file.exists /\ asset_dir.asset_file.content \in NonIntegerTexts

ImproperFormat == "Converted asset version has improper format; expected integer number"

Logged(level, message) == \E i \in 1..Len(log) : log[i][1] = level /\ log[i][2] = message

LoggedAt(level) == \E i \in 1..Len(log) : log[i][1] = level

\* C3 as stated: after conversion_required returns True, every component's
\* skip flag is true if the component is not in the change set and false
\* if it is.
C3_SkipFlagsMirrorChangeSet ==
    (pc = "done" /\ changes # {} /\ asset_dir.writable) =>
        /\ ret = "True"
        /\ \A component \in COMPONENTS :
              args.no[component] = (component \notin changes)

\* C3 amended: after conversion_required returns True, the skip flag of
\* every component outside the change set is true, and the skip flag of
\* every component in the change set is what it was before the call.
C3_SkipFlagsSetOutsideChangeSet ==
    (pc = "done" /\ changes # {} /\ asset_dir.writable) =>
        /\ ret = "True"
        /\ \A component \in COMPONENTS :
              args.no[component] =
                 IF component \notin changes THEN TRUE ELSE args_in.no[component]

\* C3 witness: change set {graphics, metadata} on a namespace without skip
\* flags: sounds is skipped, graphics and metadata are not.
C3_Witness ==
    /\ pc = "done"
    /\ ret = "True"
    /\ changes = {"graphics", "metadata"}
    /\ args_in.no = [component \in COMPONENTS |-> FALSE]
    /\ args.no = [component \in COMPONENTS |-> component = "sounds"]

C5_UpToDateIsInert ==
    (pc = "done" /\ Len(query) = 1 /\ changes = {}) =>
        /\ ret = "False"
        /\ exc = NoExc
        /\ probes = 0
        /\ args = args_in

\* C5 witness: an up-to-date output tree under a non-empty change table,
\* with a namespace that a non-empty change set would have altered.
C5_Witness ==
    /\ pc = "done"
    /\ CHANGES # << >>
    /\ changes = {}
    /\ ret = "False"
    /\ ~args_in.no_pickle_cache
    /\ \E component \in COMPONENTS : ~args_in.no[component]

\* C6: when the change set is not empty and no writable path resolves,
\* conversion_required raises the OSError after one probe and leaves the
\* conversion request as it was.
C6_UnwritableLeavesRequestAlone ==
    (pc = "done" /\ changes # {} /\ ~asset_dir.writable) =>
        /\ exc = NoWritablePath
        /\ ret = NoReturn
        /\ probes = 1
        /\ args = args_in

\* C6 witness: the OSError is raised on a request the call would otherwise
\* have altered.
C6_Witness ==
    /\ pc = "done"
    /\ exc = NoWritablePath
    /\ changes = {"metadata"}
    /\ ~args_in.no_pickle_cache
    /\ args_in.no = [component \in COMPONENTS |-> FALSE]

\* C7: whenever the change set includes metadata, the conversion request
\* conversion_required produces has no_pickle_cache set, whatever the
\* metadata skip flag and the no_pickle_cache flag were before.
C7_MetadataDisablesPickleCache ==
    (pc = "done" /\ ret = "True" /\ "metadata" \in changes) => args.no_pickle_cache

\* C7 witness: metadata changed, the pickle cache was on and metadata
\* itself was flagged to be skipped.
C7_Witness ==
    /\ pc = "done"
    /\ ret = "True"
    /\ "metadata" \in changes
    /\ ~args_in.no_pickle_cache
    /\ args_in.no["metadata"]
    /\ args.no_pickle_cache

(***************************************************************************)
(* Properties of main (Spec) and of mount_input (SpecInput).               *)
(***************************************************************************)
Entered(function) == \E i \in 1..Len(calls) : calls[i] = function

\* C8 as stated: with --force, main skips the marker reading, the
\* change-table query and the up-to-date check, always starts the
\* conversion, and hands the driver a request with no skip flag set.
C8_ForceRequestsEverything ==
    (pc = "done" /\ args_in.force) =>
        /\ ~Entered("conversion_required")
        /\ reads = << >>
        /\ query = << >>
        /\ Entered("convert_assets")
        /\ \A i \in 1..Len(driver_calls) :
              \A component \in COMPONENTS : ~driver_calls[i].no[component]

\* C8 amended: with --force and without --interactive, main skips the
\* marker reading, the change-table query, the up-to-date check and the
\* writable-path probe, always enters convert_assets, and sets no skip
\* flag itself: the request the driver receives carries exactly the skip
\* flags and the pickle-cache flag of the command line.
C8_ForceBypassesInvalidation ==
    (pc = "done" /\ args_in.force /\ ~args_in.interactive) =>
        /\ ~Entered("conversion_required")
        /\ reads = << >>
        /\ query = << >>
        /\ probes = 0
        /\ Entered("convert_assets")
        /\ \A i \in 1..Len(driver_calls) :
              /\ driver_calls[i].no = args_in.no
              /\ driver_calls[i].no_pickle_cache = args_in.no_pickle_cache

\* C8 witness: --force on an output tree that is up to date, no skip flag
\* on the command line: the driver is invoked with every component
\* requested.
C8_Witness ==
    /\ pc = "done"
    /\ args_in.force
    /\ ~args_in.interactive
    /\ CHANGES = <<COMPONENTS>>
    /\ asset_dir.asset_file = File(<<"0">>)
    /\ asset_dir.spec_file = File(<<"a", "\n">>)
    /\ Len(driver_calls) = 1
    /\ driver_calls[1].no = [component \in COMPONENTS |-> FALSE]

HasBrokenExpansion == \E k \in 1..Len(detected[2]) : IsBroken(detected[2][k])

\* C9: mount_input raises nothing on account of the detection result: the
\* null result and a breaking edition come back as (False, set()) with
\* nothing mounted, and breaking expansions are warned about while
\* mounting goes ahead.
C9_DetectionNeverRaises ==
    pc = "done" =>
        /\ exc.type # "TypeError"
        /\ (detected = NoGameVersion \/ IsBroken(detected[1])) =>
              /\ ret = "(False, set())"
              /\ exc = NoExc
              /\ mounts = << >>
        /\ (detected # NoGameVersion /\ ~IsBroken(detected[1]) /\ HasBrokenExpansion) =>
              /\ Entered("mount_asset_dirs")
              /\ Logged("warn", "You have installed incompatible game expansions:")

(***************************************************************************)
(* conversion_required on an output tree that was never converted          *)
(* (SpecRequired).                                                         *)
(***************************************************************************)
NoStoredMarkers == ~asset_dir.asset_file.exists /\ ~asset_dir.spec_file.exists

\* the components some version of the change table affects
AffectedComponents == UNION { CHANGES[i] : i \in 1..Len(CHANGES) }

RootsWrapped(a) ==
    /\ a.srcdir = "AccessSynchronizer(data_dir).root"
    /\ a.targetdir = "AccessSynchronizer(targetdir).root"

\* the namespace holds neither root
RootsGone(a) == a.srcdir = "unset" /\ a.targetdir = "unset"

\* the roots were set during the call: the driver was reached
RootsWereSet == driver_calls # << >>

\* C12 as stated: the driver only ever receives the two roots behind their
\* synchronizers, and on every way of leaving convert_assets once the
\* roots were set, args carries neither srcdir nor targetdir.
C12_RootsWrappedThenAlwaysRemoved ==
    pc = "done" =>
        /\ \A i \in 1..Len(driver_calls) : RootsWrapped(driver_calls[i])
        /\ RootsWereSet => RootsGone(args)

\* C12 amended: the driver only ever receives the two roots behind their
\* synchronizers; when convert_assets returns after the driver ran to
\* completion, args carries neither srcdir nor targetdir, and when the
\* driver raises, the exception leaves convert_assets with both wrapped
\* roots still in args.
C12_RootsWrappedThenRemovedOnReturn ==
    pc = "done" =>
        /\ \A i \in 1..Len(driver_calls) : RootsWrapped(driver_calls[i])
        /\ Len(driver_calls) <= 1
        /\ (RootsWereSet /\ exc = NoExc) => RootsGone(args)
        /\ (RootsWereSet /\ exc # NoExc) => (exc = DriverFailure /\ RootsWrapped(args))
        /\ ~RootsWereSet => RootsGone(args)

\* C12 witness: the driver was invoked with both roots wrapped and ran to
\* completion on a namespace that carried skip flags; the roots are gone
\* afterwards.
C12_Witness ==
    /\ pc = "done"
    /\ Len(driver_calls) = 1
    /\ RootsWrapped(driver_calls[1])
    /\ driver_calls[1].no = args_in.no
    /\ driver = "completes"
    /\ exc = NoExc
    /\ ret = "data_dir.resolve_native_path()"
    /\ RootsGone(args)
    /\ args.game_version = detected

====
